---- MODULE Spec2Model ----
(***************************************************************************)
(* A model of the mutual-authentication Peer of src/src/auth/Peer.ts.      *)
(*                                                                         *)
(* Two Peer instances, "A" and "B", each with its own wallet, are joined   *)
(* by a two-way transport.  Every string the program handles as an         *)
(* identity key or a nonce is a triple <<kind, owner, serial>>, so that    *)
(* the SessionManager can be asked for either, as in the code.             *)
(***************************************************************************)
EXTENDS Integers, Sequences, FiniteSets, TLC

Peers == {"A", "B"}

Other(p) == IF p = "A" THEN "B" ELSE "A"

(***************************************************************************)
(* Bounds of the model.                                                    *)
(***************************************************************************)
MaxCalls == 2

MaxHostileCalls == 1

MaxTamper == 1

MaxListeners == 1

(***************************************************************************)
(* Values.                                                                 *)
(***************************************************************************)
AUTH_VERSION == "0.1"

\* undefined / null
NONE == <<"none", "", 0>>

\* the empty (or all-blank) string ''
EMPTY == <<"empty", "", 0>>

\* the literal 'unknown' the code substitutes for a missing value
UNKNOWN == <<"unknown", "", 0>>

\* wallet.getPublicKey({ identityKey: true }).publicKey
Key(p) == <<"key", p, 0>>

\* a nonce minted by createNonce(wallet of p)
Nonce(p, k) == <<"nonce", p, k>>

\* Utils.toBase64(Random(32)) drawn by p
Rnd(p, k) == <<"rnd", p, k>>

IsKey(v) == v[1] = "key"

\* x ?? d
Or(x, d) == IF x = NONE THEN d ELSE x

\* x is undefined, null or blank
Blank(x) == x = NONE \/ x = EMPTY

\* a RequestedCertificateSet with the given certifiers; NoReq is a missing one
ReqSet(cs) == [def |-> TRUE, certifiers |-> cs]

NoReq == [def |-> FALSE, certifiers |-> {}]

\* a missing payload (payloads are sequences of bytes)
NoPayload == <<-1>>

Payloads == {<<222, 173>>}

Certifier == "C"

\* the certificate the wallet of p holds, issued by Certifier
Cert(p) == [certifier |-> Certifier, subject |-> Key(p)]

NoSig ==
  [signer |-> NONE, counterparty |-> NONE, k1 |-> NONE, k2 |-> NONE,
   kind |-> "none", payload |-> NoPayload, certs |-> <<>>, req |-> NoReq,
   d1 |-> NONE, d2 |-> NONE]

NoData == [payload |-> NoPayload, certs |-> <<>>, req |-> NoReq, d1 |-> NONE, d2 |-> NONE]

\* wallet.createSignature by p: protocolID is the same everywhere, keyID is
\* "<k1> <k2>", data is one of the four kinds
CreateSignature(p, kind, data, k1, k2, counterparty) ==
  [signer |-> Key(p), counterparty |-> counterparty, k1 |-> k1, k2 |-> k2,
   kind |-> kind, payload |-> data.payload, certs |-> data.certs,
   req |-> data.req, d1 |-> data.d1, d2 |-> data.d2]

\* wallet.verifySignature by p: valid iff made by counterparty for p under the
\* same keyID over the same data
VerifySignature(p, sig, kind, data, k1, k2, counterparty) ==
  /\ IsKey(counterparty)
  /\ sig.signer = counterparty
  /\ sig.counterparty = Key(p)
  /\ sig.k1 = k1 /\ sig.k2 = k2
  /\ sig.kind = kind
  /\ sig.payload = data.payload /\ sig.certs = data.certs /\ sig.req = data.req
  /\ sig.d1 = data.d1 /\ sig.d2 = data.d2

\* verifyNonce(nonce, wallet of p): the nonce was minted by this wallet
VerifyNonce(n, p) == n[1] = "nonce" /\ n[2] = p

BaseMsg ==
  [version |-> AUTH_VERSION, messageType |-> "none", identityKey |-> NONE,
   initialNonce |-> NONE, yourNonce |-> NONE, nonce |-> NONE,
   requestedCertificates |-> NoReq, certificates |-> <<>>,
   payload |-> NoPayload, signature |-> NoSig]

(***************************************************************************)
(* SessionManager.                                                         *)
(***************************************************************************)
NoSession ==
  [isAuthenticated |-> FALSE, sessionNonce |-> NONE, peerNonce |-> NONE,
   peerIdentityKey |-> NONE]

MaxOf(S) == CHOOSE x \in S : \A y \in S : y <= x

\* addSession(s)
AddSession(ss, s) == Append(ss, s)

\* getSession(identifier): by sessionNonce, else by peerNonce, else by
\* peerIdentityKey (the most recent authenticated one, else the most recent)
GetSession(ss, id) ==
  LET bySession == {i \in DOMAIN ss : ss[i].sessionNonce = id}
      byPeerNonce == {i \in DOMAIN ss : ss[i].peerNonce = id}
      byKey == {i \in DOMAIN ss : ss[i].peerIdentityKey = id}
      byKeyAuth == {i \in byKey : ss[i].isAuthenticated}
  IN  IF id = NONE THEN NoSession
      ELSE IF bySession # {} THEN ss[MaxOf(bySession)]
      ELSE IF byPeerNonce # {} THEN ss[MaxOf(byPeerNonce)]
      ELSE IF byKeyAuth # {} THEN ss[MaxOf(byKeyAuth)]
      ELSE IF byKey # {} THEN ss[MaxOf(byKey)]
      ELSE NoSession

\* updateSession(s): replace the session holding s.sessionNonce
UpdateSession(ss, s) ==
  [i \in DOMAIN ss |-> IF ss[i].sessionNonce = s.sessionNonce THEN s ELSE ss[i]]


(***************************************************************************)
(* The state of the two Peers, the transport between them, and the calls   *)
(* of the outbound API that are in flight.                                 *)
(***************************************************************************)
VARIABLES
  sessions,                               \* sessionManager of each Peer
  lastInteractedWithPeer,
  certificatesToRequest,                  \* the certifiers each Peer asks for
  autoPersistLastSession,
  onGeneralMessageReceivedCallbacks,      \* callback IDs registered
  onCertificatesReceivedCallbacks,
  onCertificateRequestReceivedCallbacks,
  onInitialResponseReceivedCallbacks,     \* [id, sessionNonce] entries
  callbackIdCounter,
  nonceCounter,                           \* serial of the next nonce a wallet mints
  holdsCert,                              \* whether the wallet holds Cert(p)
  net,                                    \* net[p]: messages on their way to p
  calls,                                  \* calls of toPeer & co., oldest first
  fired,                                  \* every callback invocation so far
  outcome,                                \* how the last inbound message of p ended
  accepted,                               \* initialResponses that passed every check
  transport,                              \* "reliable", "slow" or "hostile"
  tamperLeft                              \* messages the adversary may still forge

vars ==
  <<sessions, lastInteractedWithPeer, certificatesToRequest, autoPersistLastSession,
    onGeneralMessageReceivedCallbacks, onCertificatesReceivedCallbacks,
    onCertificateRequestReceivedCallbacks, onInitialResponseReceivedCallbacks,
    callbackIdCounter, nonceCounter, holdsCert, net, calls, fired, outcome,
    accepted, transport, tamperLeft>>

config == <<certificatesToRequest, autoPersistLastSession, holdsCert, transport>>

\* one callback invocation
Invocation(p, kind, id, sender, payload, certs, req) ==
  [peer |-> p, kind |-> kind, id |-> id, sender |-> sender, payload |-> payload,
   certs |-> certs, req |-> req]

\* how the latest inbound message of a Peer ended: the message, "ok" or the
\* error raised, and how many messages the Peer has handled
NoOutcome == [msg |-> BaseMsg, result |-> "none", n |-> 0]

(***************************************************************************)
(* Helpers of the outbound API.                                            *)
(***************************************************************************)
\* a getAuthenticatedSession that would return whatever session it finds
UsableAnySession(s) == s # NoSession

\* getAuthenticatedSession's test (peerSession == null) || !peerSession.isAuthenticated
Usable(s) == s # NoSession /\ s.isAuthenticated

\* getVerifiableCertificates(wallet of p, request, verifier)
GetVerifiableCertificates(p, req) ==
  IF holdsCert[p] /\ Certifier \in req.certifiers THEN <<Cert(p)>> ELSE <<>>

\* validateCertificates(wallet, message, request) succeeds
ValidateCertificates(m, req) ==
  \A i \in DOMAIN m.certificates : m.certificates[i].certifier \in req.certifiers

\* the 'general' message toPeer builds for session s with request nonce rn
GeneralMessage(p, s, rn, payload) ==
  [BaseMsg EXCEPT
     !.messageType = "general",
     !.identityKey = Key(p),
     !.nonce = rn,
     !.yourNonce = Or(s.peerNonce, UNKNOWN),
     !.payload = payload,
     !.signature =
        CreateSignature(p, "general", [NoData EXCEPT !.payload = payload],
                        rn, Or(s.peerNonce, UNKNOWN), s.peerIdentityKey)]

\* the 'certificateRequest' message requestCertificates builds
CertificateRequestMessage(p, s, rn, req) ==
  [BaseMsg EXCEPT
     !.messageType = "certificateRequest",
     !.identityKey = Key(p),
     !.nonce = rn,
     !.initialNonce = Or(s.sessionNonce, UNKNOWN),
     !.yourNonce = Or(s.peerNonce, UNKNOWN),
     !.requestedCertificates = req,
     !.signature =
        CreateSignature(p, "req", [NoData EXCEPT !.req = req],
                        rn, Or(s.peerNonce, UNKNOWN), s.peerIdentityKey)]

\* the 'certificateResponse' message sendCertificateResponse builds
CertificateResponseMessage(p, s, rn, certs) ==
  [BaseMsg EXCEPT
     !.messageType = "certificateResponse",
     !.identityKey = Key(p),
     !.nonce = rn,
     !.initialNonce = Or(s.sessionNonce, UNKNOWN),
     !.yourNonce = Or(s.peerNonce, UNKNOWN),
     !.certificates = certs,
     !.signature =
        CreateSignature(p, "certs", [NoData EXCEPT !.certs = certs],
                        rn, Or(s.peerNonce, UNKNOWN), Or(s.peerIdentityKey, UNKNOWN))]

\* the message an outbound call of the given kind sends under session s
OutMessage(p, kind, s, rn, payload, certs, req) ==
  IF kind = "toPeer" THEN GeneralMessage(p, s, rn, payload)
  ELSE IF kind = "requestCertificates" THEN CertificateRequestMessage(p, s, rn, req)
  ELSE CertificateResponseMessage(p, s, rn, certs)

\* the 'initialRequest' initiateHandshake builds
InitialRequestMessage(p, sessionNonce) ==
  [BaseMsg EXCEPT
     !.messageType = "initialRequest",
     !.identityKey = Key(p),
     !.initialNonce = sessionNonce,
     !.requestedCertificates = ReqSet(certificatesToRequest[p])]

\* the Pending session initiateHandshake adds
PendingSession(sessionNonce, identityKey) ==
  [isAuthenticated |-> FALSE, sessionNonce |-> sessionNonce, peerNonce |-> NONE,
   peerIdentityKey |-> identityKey]

\* a call of the outbound API
Call(p, kind, identityKey, payload, certs, req, inbound) ==
  [peer |-> p, kind |-> kind, identityKey |-> identityKey, payload |-> payload,
   certs |-> certs, req |-> req, inbound |-> inbound, sessionNonce |-> NONE,
   cbid |-> -1, pc |-> "start", error |-> "none", used |-> NoSession,
   sent |-> <<>>, during |-> {}, arg |-> identityKey]

\* getAuthenticatedSession(c.identityKey) up to its first suspension, for call c
\* with the sessions ss and nonce serial nc of its Peer: either the session
\* exists and the message is sent, or initiateHandshake adds a Pending session
\* and hands the initialRequest to the transport.
\* Returns the call, the sessions, the messages sent and the serial.
Begin(c, ss, nc) ==
  LET p == c.peer
      s == IF c.identityKey # NONE THEN GetSession(ss, c.identityKey) ELSE NoSession
      m == OutMessage(p, c.kind, s, Rnd(p, nc), c.payload, c.certs, c.req)
      sn == Nonce(p, nc)
      rq == InitialRequestMessage(p, sn)
  IN  IF Usable(s)
      THEN [call |-> [c EXCEPT !.pc = "done", !.used = s, !.sent = <<m>>],
            ss |-> ss, out |-> <<m>>, nc |-> nc + 1]
      ELSE [call |-> [c EXCEPT !.pc = "sending", !.sessionNonce = sn, !.sent = <<rq>>],
            ss |-> AddSession(ss, PendingSession(sn, c.identityKey)),
            out |-> <<rq>>, nc |-> nc + 1]


\* getAuthenticatedSession continues for call c once initiateHandshake has
\* resolved: it looks the session up again, and the caller sends its message
\* or getAuthenticatedSession throws.
\* Returns the call, the messages sent and the serial.
Resumed(c, ss, nc) ==
  LET p == c.peer
      s == GetSession(ss, Or(c.identityKey, c.sessionNonce))
      m == OutMessage(p, c.kind, s, Rnd(p, nc), c.payload, c.certs, c.req)
  IN  IF Usable(s)
      THEN [call |-> [c EXCEPT !.pc = "done", !.used = s, !.sent = Append(@, m)],
            out |-> <<m>>, nc |-> nc + 1]
      ELSE [call |-> [c EXCEPT !.pc = "failed", !.error = "HandshakeFailed"],
            out |-> <<>>, nc |-> nc]

(***************************************************************************)
(* The processors of inbound messages.  Each is an operator from the       *)
(* current state and the message to its effects on the Peer p:             *)
(*   ss, last, nc   the sessions, lastInteractedWithPeer and nonce serial  *)
(*   fire           the callbacks invoked                                  *)
(*   wake           the initial-response listeners invoked                 *)
(*   out            the messages handed to the transport                   *)
(*   spawn          calls of sendCertificateResponse it made               *)
(*   acc            the sessionNonce whose initialResponse it accepted     *)
(*   result         "ok", or the error raised                              *)
(***************************************************************************)
Eff(p) ==
  [ss |-> sessions[p], last |-> lastInteractedWithPeer[p], nc |-> nonceCounter[p],
   fire |-> {}, wake |-> {}, out |-> <<>>, spawn |-> <<>>, acc |-> {},
   result |-> "ok"]

\* an error that would also reach the callers waiting for an initial response
RaiseToCallers(e, error) ==
  [e EXCEPT !.result = error,
            !.wake = UNION {onInitialResponseReceivedCallbacks[q] : q \in Peers}]

\* throw new Error(error): the effects so far stay, the onData handler catches
Raise(e, error) == [e EXCEPT !.result = error]

\* await this.sendCertificateResponse(verifierIdentityKey, certificates) made
\* by a processor whose effects so far are e
SendCertificateResponseIn(p, e, verifierIdentityKey, certificates) ==
  LET b == Begin(Call(p, "sendCertificateResponse", verifierIdentityKey, NoPayload,
                      certificates, NoReq, TRUE), e.ss, e.nc)
  IN  [e EXCEPT !.ss = b.ss, !.nc = b.nc, !.out = e.out \o b.out,
                !.spawn = <<b.call>>]

\* the certificatesRequested listeners called with (sender, requestedCertificates)
RequestedInvocations(p, sender, req) ==
  {Invocation(p, "certificatesRequested", id, sender, NoPayload, <<>>, req) :
     id \in onCertificateRequestReceivedCallbacks[p]}

\* the certificatesReceived listeners called with (sender, certificates)
ReceivedInvocations(p, sender, certs) ==
  {Invocation(p, "certificatesReceived", id, sender, NoPayload, certs, NoReq) :
     id \in onCertificatesReceivedCallbacks[p]}

\* the generalMessage listeners called with (sender, payload)
GeneralInvocations(p, sender, payload) ==
  {Invocation(p, "generalMessage", id, sender, payload, <<>>, NoReq) :
     id \in onGeneralMessageReceivedCallbacks[p]}

\* processInitialRequest's test of the required fields
InitialRequestFieldsMissing(m) == m.identityKey = EMPTY \/ m.initialNonce = EMPTY

ProcessInitialRequest(p, m) ==
  LET e == Eff(p)
      sessionNonce == Nonce(p, e.nc)
      ss1 == AddSession(e.ss,
               [isAuthenticated |-> TRUE, sessionNonce |-> sessionNonce,
                peerNonce |-> m.initialNonce, peerIdentityKey |-> m.identityKey])
      wanted == m.requestedCertificates.certifiers # {}
      listeners == onCertificateRequestReceivedCallbacks[p]
      fire == IF wanted /\ listeners # {}
              THEN RequestedInvocations(p, m.identityKey, m.requestedCertificates)
              ELSE {}
      certificatesToInclude ==
        IF wanted /\ listeners = {}
        THEN GetVerifiableCertificates(p, m.requestedCertificates)
        ELSE <<>>
      signature ==
        CreateSignature(p, "nonces",
          [NoData EXCEPT !.d1 = Or(m.initialNonce, EMPTY), !.d2 = sessionNonce],
          Or(m.initialNonce, UNKNOWN), sessionNonce, Or(m.identityKey, UNKNOWN))
      initialResponseMessage ==
        [BaseMsg EXCEPT
           !.messageType = "initialResponse",
           !.identityKey = Key(p),
           !.initialNonce = sessionNonce,
           !.yourNonce = Or(m.initialNonce, UNKNOWN),
           !.certificates = certificatesToInclude,
           !.requestedCertificates = ReqSet(certificatesToRequest[p]),
           !.signature = signature]
  IN  IF InitialRequestFieldsMissing(m) THEN Raise(e, "Structural")
      ELSE [e EXCEPT !.ss = ss1, !.nc = e.nc + 1, !.fire = fire,
                     !.last = IF e.last = NONE THEN m.identityKey ELSE e.last,
                     !.out = <<initialResponseMessage>>]

\* the initial-response listeners processInitialResponse invokes for session s
Woken(p, s) ==
  {w \in onInitialResponseReceivedCallbacks[p] :
     s.sessionNonce # NONE /\ w.sessionNonce = s.sessionNonce}

\* processInitialResponse's test of the nonce
InitialResponseNonceOk(p, m) == VerifyNonce(m.yourNonce, p)

\* a processInitialResponse that would ignore the result of verifySignature
InitialResponseSignatureUnchecked(p, m, peerSession) == TRUE

\* processInitialResponse's test of the signature under session peerSession
InitialResponseSignatureOk(p, m, peerSession) ==
  VerifySignature(p, m.signature, "nonces",
    [NoData EXCEPT !.d1 = Or(peerSession.sessionNonce, EMPTY),
                   !.d2 = Or(m.initialNonce, EMPTY)],
    Or(peerSession.sessionNonce, EMPTY), Or(m.initialNonce, EMPTY),
    Or(m.identityKey, EMPTY))

\* a processInitialResponse that would not set isAuthenticated
StillPending(peerSession, m) ==
  [peerSession EXCEPT !.peerNonce = m.initialNonce,
                      !.peerIdentityKey = m.identityKey]

\* the session processInitialResponse stores once the signature is verified
Authenticated(peerSession, m) ==
  [peerSession EXCEPT !.peerNonce = m.initialNonce,
                      !.peerIdentityKey = m.identityKey,
                      !.isAuthenticated = TRUE]

ProcessInitialResponse(p, m) ==
  LET e == Eff(p)
      peerSession == GetSession(e.ss, m.yourNonce)
      valid == InitialResponseSignatureOk(p, m, peerSession)
      updated == Authenticated(peerSession, m)
      e1 == [e EXCEPT !.ss = UpdateSession(e.ss, updated),
                      !.acc = {peerSession.sessionNonce}]
      inBlock == certificatesToRequest[p] # {} /\ Len(m.certificates) > 0
      e2 == [e1 EXCEPT
               !.fire = ReceivedInvocations(p, m.identityKey, m.certificates),
               !.last = IF ~Blank(m.identityKey) THEN m.identityKey ELSE e.last,
               !.wake = Woken(p, peerSession)]
      requested == m.requestedCertificates.def
                   /\ m.requestedCertificates.certifiers # {}
      e3 == IF ~requested THEN e2
            ELSE IF onCertificateRequestReceivedCallbacks[p] # {}
            THEN [e2 EXCEPT !.fire = @ \cup
                    RequestedInvocations(p, Or(m.identityKey, UNKNOWN),
                                         m.requestedCertificates)]
            ELSE SendCertificateResponseIn(p, e2, Or(m.identityKey, UNKNOWN),
                   GetVerifiableCertificates(p, m.requestedCertificates))
  IN  IF m.yourNonce = NONE THEN Raise(e, "Structural")
      ELSE IF ~InitialResponseNonceOk(p, m) THEN Raise(e, "NonceRejected")
      ELSE IF peerSession = NoSession THEN Raise(e, "SessionMissing")
      ELSE IF ~valid THEN Raise(e, "SignatureInvalid")
      ELSE IF ~inBlock THEN e1
      ELSE IF ~ValidateCertificates(m, ReqSet(certificatesToRequest[p]))
      THEN Raise(e1, "CertificateValidation")
      ELSE e3

\* processCertificateRequest's test of the nonce
CertificateRequestNonceOk(p, m) == VerifyNonce(m.yourNonce, p)

ProcessCertificateRequest(p, m) ==
  LET e == Eff(p)
      peerSession == GetSession(e.ss, m.yourNonce)
      valid ==
        VerifySignature(p, m.signature, "req",
          [NoData EXCEPT !.req = m.requestedCertificates],
          m.nonce, peerSession.sessionNonce, peerSession.peerIdentityKey)
      wanted == m.requestedCertificates.certifiers # {} /\ ~Blank(m.identityKey)
  IN  IF Blank(m.yourNonce) THEN Raise(e, "Structural")
      ELSE IF ~CertificateRequestNonceOk(p, m) THEN Raise(e, "NonceRejected")
      ELSE IF peerSession = NoSession THEN Raise(e, "SessionMissing")
      ELSE IF m.signature = NoSig THEN Raise(e, "Structural")
      ELSE IF Blank(m.nonce) THEN Raise(e, "Structural")
      ELSE IF Blank(peerSession.sessionNonce) THEN Raise(e, "SessionIncomplete")
      ELSE IF Blank(peerSession.peerIdentityKey) THEN Raise(e, "SessionIncomplete")
      ELSE IF ~valid THEN Raise(e, "SignatureInvalid")
      ELSE IF ~wanted THEN e
      ELSE IF onCertificateRequestReceivedCallbacks[p] # {}
      THEN [e EXCEPT !.fire =
              RequestedInvocations(p, m.identityKey, m.requestedCertificates)]
      ELSE SendCertificateResponseIn(p, e, m.identityKey,
             GetVerifiableCertificates(p, m.requestedCertificates))

\* a processCertificateResponse that would not call verifyNonce
CertificateResponseNonceUnchecked(p, m) == TRUE

\* processCertificateResponse's test of the nonce
CertificateResponseNonceOk(p, m) == VerifyNonce(m.yourNonce, p)

ProcessCertificateResponse(p, m) ==
  LET e == Eff(p)
      peerSession == GetSession(e.ss, m.yourNonce)
      valid ==
        VerifySignature(p, m.signature, "certs",
          [NoData EXCEPT !.certs = m.certificates],
          Or(m.nonce, UNKNOWN), Or(peerSession.sessionNonce, UNKNOWN),
          Or(m.identityKey, UNKNOWN))
      request == IF m.requestedCertificates.def THEN m.requestedCertificates
                 ELSE ReqSet({})
  IN  IF Blank(m.yourNonce) THEN Raise(e, "Structural")
      ELSE IF ~CertificateResponseNonceOk(p, m) THEN Raise(e, "NonceRejected")
      ELSE IF peerSession = NoSession THEN Raise(e, "SessionMissing")
      ELSE IF Blank(peerSession.sessionNonce) THEN Raise(e, "SessionIncomplete")
      ELSE IF m.signature = NoSig THEN Raise(e, "Structural")
      ELSE IF ~valid THEN Raise(e, "SignatureInvalid")
      ELSE IF ~ValidateCertificates(m, request) THEN Raise(e, "CertificateValidation")
      ELSE [e EXCEPT !.fire =
              ReceivedInvocations(p, Or(m.identityKey, UNKNOWN), m.certificates)]

\* a processGeneralMessage that would not call verifyNonce
GeneralNonceUnchecked(p, m) == TRUE

\* processGeneralMessage's test of the nonce
GeneralNonceOk(p, m) == VerifyNonce(m.yourNonce, p)

\* a processGeneralMessage that would ignore the result of verifySignature
GeneralSignatureUnchecked(p, m, s) == TRUE

\* processGeneralMessage's test of the signature under session s
GeneralSignatureOk(p, m, s) ==
  VerifySignature(p, m.signature, "general", [NoData EXCEPT !.payload = m.payload],
                  m.nonce, s.sessionNonce, s.peerIdentityKey)

ProcessGeneralMessage(p, m) ==
  LET e == Eff(p)
      peerSession == GetSession(e.ss, m.yourNonce)
  IN  IF m.yourNonce = NONE THEN Raise(e, "Structural")
      ELSE IF m.signature = NoSig THEN Raise(e, "Structural")
      ELSE IF m.nonce = NONE THEN Raise(e, "Structural")
      ELSE IF m.payload = NoPayload THEN Raise(e, "Structural")
      ELSE IF ~GeneralNonceOk(p, m) THEN Raise(e, "NonceRejected")
      ELSE IF peerSession = NoSession THEN Raise(e, "SessionMissing")
      ELSE IF peerSession.sessionNonce = NONE THEN Raise(e, "SessionIncomplete")
      ELSE IF peerSession.peerIdentityKey = NONE THEN Raise(e, "SessionIncomplete")
      ELSE IF ~GeneralSignatureOk(p, m, peerSession) THEN Raise(e, "SignatureInvalid")
      ELSE IF m.identityKey = NONE THEN Raise(e, "Structural")
      ELSE [e EXCEPT !.last = m.identityKey,
                     !.fire = GeneralInvocations(p, m.identityKey, m.payload)]

MessageTypes ==
  {"initialRequest", "initialResponse", "certificateRequest", "certificateResponse",
   "general"}

\* a handleIncomingMessage that would take any version
VersionUnchecked(m) == TRUE

\* handleIncomingMessage's test of the version
VersionOk(m) == ~(m.version = "none" \/ m.version = "" \/ m.version # AUTH_VERSION)

\* handleIncomingMessage(message), under the try/catch of the onData handler
Dispatch(p, m) ==
  IF ~VersionOk(m) THEN Raise(Eff(p), "VersionMismatch")
  ELSE IF m.messageType = "initialRequest" THEN ProcessInitialRequest(p, m)
  ELSE IF m.messageType = "initialResponse" THEN ProcessInitialResponse(p, m)
  ELSE IF m.messageType = "certificateRequest" THEN ProcessCertificateRequest(p, m)
  ELSE IF m.messageType = "certificateResponse" THEN ProcessCertificateResponse(p, m)
  ELSE IF m.messageType = "general" THEN ProcessGeneralMessage(p, m)
  ELSE Raise(Eff(p), "UnknownType")


(***************************************************************************)
(* Construction.  certificatesToRequest, autoPersistLastSession, what the  *)
(* wallets hold and how the transport behaves are chosen at construction   *)
(* and never change.  The transport is one of                              *)
(*   "reliable"  every message arrives, in order and unchanged, well       *)
(*               within maxWaitTime;                                       *)
(*   "slow"      as reliable, but a timer may fire before the answer;      *)
(*   "hostile"   as slow, and an adversary changes or makes up to          *)
(*               MaxTamper messages.                                       *)
(***************************************************************************)
Init ==
  /\ sessions = [p \in Peers |-> <<>>]
  /\ lastInteractedWithPeer = [p \in Peers |-> NONE]
  /\ certificatesToRequest \in [Peers -> {{}, {Certifier}}]
  /\ autoPersistLastSession = [p \in Peers |-> TRUE]
  /\ onGeneralMessageReceivedCallbacks = [p \in Peers |-> {}]
  /\ onCertificatesReceivedCallbacks = [p \in Peers |-> {}]
  /\ onCertificateRequestReceivedCallbacks = [p \in Peers |-> {}]
  /\ onInitialResponseReceivedCallbacks = [p \in Peers |-> {}]
  /\ callbackIdCounter = [p \in Peers |-> 0]
  /\ nonceCounter = [p \in Peers |-> 0]
  /\ holdsCert \in {[p \in Peers |-> p = "B" /\ h] : h \in BOOLEAN}
  /\ net = [p \in Peers |-> <<>>]
  /\ calls = <<>>
  /\ fired = {}
  /\ outcome = [p \in Peers |-> NoOutcome]
  /\ accepted = [p \in Peers |-> {}]
  /\ transport \in {"reliable", "slow", "hostile"}
  /\ tamperLeft = IF transport = "hostile" THEN MaxTamper ELSE 0

callbackMaps ==
  <<onGeneralMessageReceivedCallbacks, onCertificatesReceivedCallbacks,
    onCertificateRequestReceivedCallbacks>>

(***************************************************************************)
(* The outbound API.                                                       *)
(***************************************************************************)
\* the Peers whose application calls the outbound API
Callers == {"A"}

\* calls made by the application (not by a processor)
UserCalls == {i \in DOMAIN calls : ~calls[i].inbound}

\* the calls the applications make in all
CallBound == IF transport = "hostile" THEN MaxHostileCalls ELSE MaxCalls

\* the calls of p whose handshake is in flight: the initialRequest is sent and
\* no initialResponse for it has been accepted or timed out
HandshakesInFlight(p) ==
  {i \in DOMAIN calls : /\ calls[i].peer = p
                        /\ calls[i].pc \in {"sending", "waiting"}
                        /\ calls[i].sessionNonce \notin accepted[p]}

\* a call c is made: getAuthenticatedSession runs up to its first suspension
StartCall(c) ==
  LET p == c.peer
      b == Begin(c, sessions[p], nonceCounter[p])
  IN  /\ Cardinality(UserCalls) < CallBound
      /\ calls' = Append(calls, [b.call EXCEPT !.during = HandshakesInFlight(p)])
      /\ sessions' = [sessions EXCEPT ![p] = b.ss]
      /\ nonceCounter' = [nonceCounter EXCEPT ![p] = b.nc]
      /\ net' = [net EXCEPT ![Other(p)] = @ \o b.out]
      /\ UNCHANGED <<lastInteractedWithPeer, config, callbackMaps,
                     onInitialResponseReceivedCallbacks, callbackIdCounter, fired,
                     outcome, accepted, tamperLeft>>

\* a toPeer that would pass its argument on as it is
ToPeerTargetAsGiven(p, identityKey) == identityKey

\* toPeer's choice of the identity key
ToPeerTarget(p, identityKey) ==
  IF autoPersistLastSession[p] /\ lastInteractedWithPeer[p] # NONE
     /\ identityKey = NONE
  THEN lastInteractedWithPeer[p]
  ELSE identityKey

\* toPeer(message, identityKey)
ToPeer(p, message, identityKey) ==
  StartCall([Call(p, "toPeer", ToPeerTarget(p, identityKey), message, <<>>, NoReq,
                  FALSE) EXCEPT !.arg = identityKey])

\* requestCertificates(certificatesToRequest, identityKey)
RequestCertificates(p, req, identityKey) ==
  StartCall(Call(p, "requestCertificates", identityKey, NoPayload, <<>>, req, FALSE))

\* sendCertificateResponse(verifierIdentityKey, certificates), called by the
\* application
SendCertificateResponse(p, verifierIdentityKey, certificates) ==
  StartCall(Call(p, "sendCertificateResponse", verifierIdentityKey, NoPayload,
                 certificates, NoReq, FALSE))

\* transport.send(initialRequest) returns to initiateHandshake, and
\* waitForInitialResponse registers its listener and starts its timer
WaitForInitialResponse(i) ==
  LET c == calls[i]
      p == c.peer
      callbackID == callbackIdCounter[p]
  IN  /\ c.pc = "sending"
      /\ callbackIdCounter' = [callbackIdCounter EXCEPT ![p] = @ + 1]
      /\ onInitialResponseReceivedCallbacks' =
           [onInitialResponseReceivedCallbacks EXCEPT
              ![p] = @ \cup {[id |-> callbackID, sessionNonce |-> c.sessionNonce]}]
      /\ calls' = [calls EXCEPT ![i] = [c EXCEPT !.pc = "waiting", !.cbid = callbackID]]
      /\ UNCHANGED <<sessions, lastInteractedWithPeer, config, callbackMaps,
                     nonceCounter, net, fired, outcome, accepted, tamperLeft>>

\* nothing is on its way and no call is about to run
Quiescent ==
  /\ \A p \in Peers : net[p] = <<>>
  /\ \A i \in DOMAIN calls : calls[i].pc # "sending"

\* a timer that would leave the listener in the registry
ListenerKept(reg, callbackID) == reg

\* stopListeningForInitialResponses(callbackID) on the registry reg
StopListeningForInitialResponses(reg, callbackID) == {w \in reg : w.id # callbackID}

\* the timer of waitForInitialResponse fires.  On a reliable transport
\* maxWaitTime is longer than any delivery: the timer fires only when nothing
\* else is left to happen.
InitialResponseTimeout(i) ==
  LET c == calls[i]
      p == c.peer
  IN  /\ c.pc = "waiting"
      /\ transport = "reliable" => Quiescent
      /\ onInitialResponseReceivedCallbacks' =
           [onInitialResponseReceivedCallbacks EXCEPT
              ![p] = StopListeningForInitialResponses(@, c.cbid)]
      /\ calls' = [calls EXCEPT ![i] = [c EXCEPT !.pc = "failed",
                                                  !.error = "HandshakeTimeout"]]
      /\ UNCHANGED <<sessions, lastInteractedWithPeer, config, callbackMaps,
                     callbackIdCounter, nonceCounter, net, fired, outcome, accepted,
                     tamperLeft>>

(***************************************************************************)
(* The callback registry.                                                  *)
(***************************************************************************)
\* Applications register their listeners before they make their first call.
\* the listeners the applications have registered, of all kinds, at all Peers
UserListeners ==
  UNION {{<<p, id>> : id \in onGeneralMessageReceivedCallbacks[p]
                            \cup onCertificatesReceivedCallbacks[p]
                            \cup onCertificateRequestReceivedCallbacks[p]} :
           p \in Peers}

ListenForGeneralMessages(p) ==
  /\ Cardinality(UserListeners) < MaxListeners
  /\ calls = <<>>
  /\ onGeneralMessageReceivedCallbacks' =
       [onGeneralMessageReceivedCallbacks EXCEPT ![p] = @ \cup {callbackIdCounter[p]}]
  /\ callbackIdCounter' = [callbackIdCounter EXCEPT ![p] = @ + 1]
  /\ UNCHANGED <<sessions, lastInteractedWithPeer, config,
                 onCertificatesReceivedCallbacks,
                 onCertificateRequestReceivedCallbacks,
                 onInitialResponseReceivedCallbacks, nonceCounter, net, calls, fired,
                 outcome, accepted, tamperLeft>>

ListenForCertificatesReceived(p) ==
  /\ Cardinality(UserListeners) < MaxListeners
  /\ calls = <<>>
  /\ onCertificatesReceivedCallbacks' =
       [onCertificatesReceivedCallbacks EXCEPT ![p] = @ \cup {callbackIdCounter[p]}]
  /\ callbackIdCounter' = [callbackIdCounter EXCEPT ![p] = @ + 1]
  /\ UNCHANGED <<sessions, lastInteractedWithPeer, config,
                 onGeneralMessageReceivedCallbacks,
                 onCertificateRequestReceivedCallbacks,
                 onInitialResponseReceivedCallbacks, nonceCounter, net, calls, fired,
                 outcome, accepted, tamperLeft>>

ListenForCertificatesRequested(p) ==
  /\ Cardinality(UserListeners) < MaxListeners
  /\ calls = <<>>
  /\ onCertificateRequestReceivedCallbacks' =
       [onCertificateRequestReceivedCallbacks EXCEPT
          ![p] = @ \cup {callbackIdCounter[p]}]
  /\ callbackIdCounter' = [callbackIdCounter EXCEPT ![p] = @ + 1]
  /\ UNCHANGED <<sessions, lastInteractedWithPeer, config,
                 onGeneralMessageReceivedCallbacks, onCertificatesReceivedCallbacks,
                 onInitialResponseReceivedCallbacks, nonceCounter, net, calls, fired,
                 outcome, accepted, tamperLeft>>

(***************************************************************************)
(* Inbound messages.                                                       *)
(***************************************************************************)
\* the calls of p whose initial-response listener is in wake
WokenCalls(p, wake) ==
  {i \in DOMAIN calls : /\ calls[i].peer = p
                        /\ calls[i].pc = "waiting"
                        /\ \E w \in wake : w.id = calls[i].cbid}

\* the transport hands the next message to the onData handler of p, which
\* runs handleIncomingMessage on it; a call whose listener the processor
\* invoked continues right after it (a sessionNonce has one listener)
Handle(p, m, rest) ==
  LET e == Dispatch(p, m)
      W == WokenCalls(p, e.wake)
      r == IF W = {} THEN [call |-> Call(p, "none", NONE, NoPayload, <<>>, NoReq, FALSE),
                           out |-> <<>>, nc |-> e.nc]
           ELSE Resumed(calls[CHOOSE i \in W : TRUE], e.ss, e.nc)
  IN  /\ sessions' = [sessions EXCEPT ![p] = e.ss]
      /\ lastInteractedWithPeer' = [lastInteractedWithPeer EXCEPT ![p] = e.last]
      /\ nonceCounter' = [nonceCounter EXCEPT ![p] = r.nc]
      /\ fired' = fired \cup e.fire
      /\ onInitialResponseReceivedCallbacks' =
           [onInitialResponseReceivedCallbacks EXCEPT ![p] = @ \ e.wake]
      /\ calls' = [i \in DOMAIN calls |-> IF i \in W THEN r.call ELSE calls[i]]
                  \o e.spawn
      /\ net' = [net EXCEPT ![p] = rest, ![Other(p)] = @ \o e.out \o r.out]
      /\ outcome' = [outcome EXCEPT
                       ![p] = [msg |-> m, result |-> e.result, n |-> @.n + 1]]
      /\ accepted' = [accepted EXCEPT ![p] = @ \cup e.acc]
      /\ UNCHANGED <<config, callbackMaps, callbackIdCounter>>

(***************************************************************************)
(* A hostile transport.  An adversary "E", with a wallet of its own, may   *)
(* change one field of a message on its way, or send a message it made.    *)
(***************************************************************************)
\* message m with one field changed
Tampered(p, m) ==
  ( {[m EXCEPT !.version = v] : v \in {"0.2", "", "none"}}
    \cup {[m EXCEPT !.messageType = "bogus"]}
    \cup {[m EXCEPT !.identityKey = k] : k \in {NONE, EMPTY, Key("E")}}
    \cup {[m EXCEPT !.initialNonce = n] : n \in {NONE, EMPTY}}
    \cup {[m EXCEPT !.yourNonce = n] :
            n \in {NONE, EMPTY} \cup
                  {sessions[p][i].peerNonce : i \in DOMAIN sessions[p]}}
    \cup {[m EXCEPT !.nonce = NONE]}
    \cup {[m EXCEPT !.payload = b] : b \in {NoPayload, <<0>>}}
    \cup {[m EXCEPT !.signature = NoSig]}
  ) \ {m}

\* a certificate E issued to itself, which no request asks for
SelfIssued == [certifier |-> "E", subject |-> Key("E")]

\* the initialResponse E makes for the handshake with the given sessionNonce
ForgedInitialResponse(p, sessionNonce, certs) ==
  [BaseMsg EXCEPT
     !.messageType = "initialResponse",
     !.identityKey = Key("E"),
     !.initialNonce = Nonce("E", 0),
     !.yourNonce = sessionNonce,
     !.certificates = certs,
     !.requestedCertificates = ReqSet({}),
     !.signature =
        CreateSignature("E", "nonces",
          [NoData EXCEPT !.d1 = sessionNonce, !.d2 = Nonce("E", 0)],
          sessionNonce, Nonce("E", 0), Key(p))]

\* the initialRequest E makes in the name of identityKey (an initialRequest
\* carries no signature)
ForgedInitialRequest(identityKey, initialNonce) ==
  [BaseMsg EXCEPT
     !.messageType = "initialRequest",
     !.identityKey = identityKey,
     !.initialNonce = initialNonce,
     !.requestedCertificates = ReqSet({})]

\* the messages E can make for p: an answer to a handshake of p that is still
\* Pending, with no certificate, one of Certifier or one of its own making, or
\* an initialRequest
Forged(p) ==
  {ForgedInitialResponse(p, sessions[p][i].sessionNonce, certs) :
     i \in {j \in DOMAIN sessions[p] : ~sessions[p][j].isAuthenticated},
     certs \in {<<>>, <<Cert("E")>>, <<SelfIssued>>}}
  \cup {ForgedInitialRequest(k, n) :
          k \in {Key(Other(p)), Key("E")}, n \in {Nonce("E", 0), NONE}}

\* what the transport may hand to the onData handler of p next: the message
\* at the head of net[p], as sent or (cost 1) with one field changed, or
\* (cost 1) a message E made; rest is what remains on its way to p
Deliveries(p) ==
  {[msg |-> Head(net[p]), rest |-> Tail(net[p]), cost |-> 0] : x \in {0} \ {Len(net[p])}}
  \cup {[msg |-> m, rest |-> Tail(net[p]), cost |-> 1] :
          m \in IF net[p] = <<>> THEN {} ELSE Tampered(p, Head(net[p]))}
  \cup {[msg |-> m, rest |-> net[p], cost |-> 1] : m \in Forged(p)}

\* the transport hands a message to the onData handler of p
HandleIncomingMessage(p) ==
  \E d \in Deliveries(p) :
    /\ d.cost <= tamperLeft
    /\ Handle(p, d.msg, d.rest)
    /\ tamperLeft' = tamperLeft - d.cost

Next ==
  \/ \E p \in Callers, message \in Payloads :
       ToPeer(p, message, Key(Other(p)))
  \/ \E p \in Callers : RequestCertificates(p, ReqSet({Certifier}), Key(Other(p)))
  \/ \E p \in Callers : SendCertificateResponse(p, Key(Other(p)), <<Cert(p)>>)
  \/ \E i \in DOMAIN calls : WaitForInitialResponse(i)
  \/ \E i \in DOMAIN calls : InitialResponseTimeout(i)
  \/ \E p \in Peers : ListenForGeneralMessages(p)
  \/ \E p \in Peers : ListenForCertificatesReceived(p)
  \/ \E p \in Peers : ListenForCertificatesRequested(p)
  \/ \E p \in Peers : HandleIncomingMessage(p)

Spec == Init /\ [][Next]_vars


(***************************************************************************)
(* Last-peer affinity.  The Peers are on a reliable transport, each with   *)
(* autoPersistLastSession as its application constructed it, and the       *)
(* application of A calls toPeer with and without an identity key.         *)
(***************************************************************************)
InitAffinity ==
  /\ sessions = [p \in Peers |-> <<>>]
  /\ lastInteractedWithPeer = [p \in Peers |-> NONE]
  /\ certificatesToRequest \in [Peers -> {{}, {Certifier}}]
  /\ autoPersistLastSession \in [Peers -> BOOLEAN]
  /\ onGeneralMessageReceivedCallbacks = [p \in Peers |-> {}]
  /\ onCertificatesReceivedCallbacks = [p \in Peers |-> {}]
  /\ onCertificateRequestReceivedCallbacks = [p \in Peers |-> {}]
  /\ onInitialResponseReceivedCallbacks = [p \in Peers |-> {}]
  /\ callbackIdCounter = [p \in Peers |-> 0]
  /\ nonceCounter = [p \in Peers |-> 0]
  /\ holdsCert \in {[p \in Peers |-> p = "B" /\ h] : h \in BOOLEAN}
  /\ net = [p \in Peers |-> <<>>]
  /\ calls = <<>>
  /\ fired = {}
  /\ outcome = [p \in Peers |-> NoOutcome]
  /\ accepted = [p \in Peers |-> {}]
  /\ transport = "reliable"
  /\ tamperLeft = 0

\* the identity keys the application passes to toPeer: none, B's, or the key
\* of a third party
ToPeerArguments == {NONE, Key("B"), Key("E")}

NextAffinity ==
  \/ \E p \in Callers, message \in Payloads :
       \E identityKey \in ToPeerArguments : ToPeer(p, message, identityKey)
  \/ \E i \in DOMAIN calls : WaitForInitialResponse(i)
  \/ \E i \in DOMAIN calls : InitialResponseTimeout(i)
  \/ \E p \in Peers : ListenForGeneralMessages(p)
  \/ \E p \in Peers : HandleIncomingMessage(p)

SpecAffinity == InitAffinity /\ [][NextAffinity]_vars

(***************************************************************************)
(* The callback registry in use.  Applications register and unregister     *)
(* listeners at any time, on a reliable transport, while the application   *)
(* of A makes one call of requestCertificates.                             *)
(***************************************************************************)
\* how many IDs the applications of a Peer draw at most
MaxCallbackIds == 2

\* a registration that would always return the ID 0
FirstCallbackID(p) == 0

\* const callbackID = this.callbackIdCounter++
NextCallbackID(p) == callbackIdCounter[p]

\* Map.set(callbackID, callback) on a map of listeners
MapSet(reg, callbackID) == reg \cup {callbackID}

\* a stopListeningFor* that would not delete
MapKept(reg, callbackID) == reg

\* Map.delete(callbackID) on a map of listeners
MapDelete(reg, callbackID) == reg \ {callbackID}

\* the kinds of listeners an application registers
UserKinds == {"generalMessage", "certificatesReceived", "certificatesRequested"}

\* the map of the listeners of a kind
Registered(kind) ==
  IF kind = "generalMessage" THEN onGeneralMessageReceivedCallbacks
  ELSE IF kind = "certificatesReceived" THEN onCertificatesReceivedCallbacks
  ELSE onCertificateRequestReceivedCallbacks

\* the map of kind becomes reg at p; the other maps stay
WithRegistry(p, kind, reg) ==
  /\ onGeneralMessageReceivedCallbacks' =
       IF kind = "generalMessage"
       THEN [onGeneralMessageReceivedCallbacks EXCEPT ![p] = reg]
       ELSE onGeneralMessageReceivedCallbacks
  /\ onCertificatesReceivedCallbacks' =
       IF kind = "certificatesReceived"
       THEN [onCertificatesReceivedCallbacks EXCEPT ![p] = reg]
       ELSE onCertificatesReceivedCallbacks
  /\ onCertificateRequestReceivedCallbacks' =
       IF kind = "certificatesRequested"
       THEN [onCertificateRequestReceivedCallbacks EXCEPT ![p] = reg]
       ELSE onCertificateRequestReceivedCallbacks
  /\ UNCHANGED <<sessions, lastInteractedWithPeer, config,
                 onInitialResponseReceivedCallbacks, nonceCounter, net, calls, fired,
                 outcome, accepted, tamperLeft>>

\* listenForGeneralMessages / listenForCertificatesReceived /
\* listenForCertificatesRequested (callback), at any time
ListenFor(p, kind) ==
  /\ callbackIdCounter[p] < MaxCallbackIds
  /\ WithRegistry(p, kind, MapSet(Registered(kind)[p], NextCallbackID(p)))
  /\ callbackIdCounter' = [callbackIdCounter EXCEPT ![p] = @ + 1]

\* stopListeningForGeneralMessages / stopListeningForCertificatesReceived /
\* stopListeningForCertificatesRequested (callbackID)
StopListeningFor(p, kind, callbackID) ==
  /\ WithRegistry(p, kind, MapDelete(Registered(kind)[p], callbackID))
  /\ UNCHANGED callbackIdCounter

\* stopListeningFor*(listenFor*(callback)): a listener registered and removed
\* at once
ListenAndStop(p, kind) ==
  /\ callbackIdCounter[p] < MaxCallbackIds
  /\ WithRegistry(p, kind,
       MapDelete(MapSet(Registered(kind)[p], NextCallbackID(p)), NextCallbackID(p)))
  /\ callbackIdCounter' = [callbackIdCounter EXCEPT ![p] = @ + 1]

\* the IDs an application may pass to stopListeningFor*: those drawn so far
\* at the Peer, by any kind, and one not drawn yet
CallbackIDs(p) == 0 .. callbackIdCounter[p]

InitRegistry ==
  /\ sessions = [p \in Peers |-> <<>>]
  /\ lastInteractedWithPeer = [p \in Peers |-> NONE]
  /\ certificatesToRequest \in {[p \in Peers |-> IF p = "A" THEN c ELSE {}] :
                                  c \in {{}, {Certifier}}}
  /\ autoPersistLastSession = [p \in Peers |-> TRUE]
  /\ onGeneralMessageReceivedCallbacks = [p \in Peers |-> {}]
  /\ onCertificatesReceivedCallbacks = [p \in Peers |-> {}]
  /\ onCertificateRequestReceivedCallbacks = [p \in Peers |-> {}]
  /\ onInitialResponseReceivedCallbacks = [p \in Peers |-> {}]
  /\ callbackIdCounter = [p \in Peers |-> 0]
  /\ nonceCounter = [p \in Peers |-> 0]
  /\ holdsCert = [p \in Peers |-> p = "B"]
  /\ net = [p \in Peers |-> <<>>]
  /\ calls = <<>>
  /\ fired = {}
  /\ outcome = [p \in Peers |-> NoOutcome]
  /\ accepted = [p \in Peers |-> {}]
  /\ transport = "reliable"
  /\ tamperLeft = 0

NextRegistry ==
  \/ \E p \in Peers, kind \in UserKinds : ListenFor(p, kind)
  \/ \E p \in Peers, kind \in UserKinds :
       \E callbackID \in CallbackIDs(p) : StopListeningFor(p, kind, callbackID)
  \/ \E p \in Peers, kind \in UserKinds : ListenAndStop(p, kind)
  \/ \E p \in Callers :
       /\ UserCalls = {}
       /\ RequestCertificates(p, ReqSet({Certifier}), Key(Other(p)))
  \/ \E i \in DOMAIN calls : WaitForInitialResponse(i)
  \/ \E i \in DOMAIN calls : InitialResponseTimeout(i)
  \/ \E p \in Peers : HandleIncomingMessage(p)

SpecRegistry == InitRegistry /\ [][NextRegistry]_vars

(***************************************************************************)
(* requestCertificates with and without an identity key.  On a reliable    *)
(* transport the application of A sends a general message to B and asks    *)
(* for certificates, naming B or naming nobody.                            *)
(***************************************************************************)
\* the identity keys the application passes to requestCertificates
RequestCertificatesArguments == {NONE, Key("B")}

NextCurrentSession ==
  \/ \E p \in Callers, message \in Payloads : ToPeer(p, message, Key(Other(p)))
  \/ \E p \in Callers :
       \E identityKey \in RequestCertificatesArguments :
         RequestCertificates(p, ReqSet({Certifier}), identityKey)
  \/ \E i \in DOMAIN calls : WaitForInitialResponse(i)
  \/ \E i \in DOMAIN calls : InitialResponseTimeout(i)
  \/ \E p \in Peers : HandleIncomingMessage(p)

SpecCurrentSession == InitAffinity /\ [][NextCurrentSession]_vars

(***************************************************************************)
(* Both applications call.  Each of A and B sends one general message to   *)
(* the other, over a slow transport on which an adversary changes or makes *)
(* up to MaxTamper messages; no certificates are asked for.                *)
(***************************************************************************)
InitBothCall ==
  /\ sessions = [p \in Peers |-> <<>>]
  /\ lastInteractedWithPeer = [p \in Peers |-> NONE]
  /\ certificatesToRequest = [p \in Peers |-> {}]
  /\ autoPersistLastSession = [p \in Peers |-> TRUE]
  /\ onGeneralMessageReceivedCallbacks = [p \in Peers |-> {}]
  /\ onCertificatesReceivedCallbacks = [p \in Peers |-> {}]
  /\ onCertificateRequestReceivedCallbacks = [p \in Peers |-> {}]
  /\ onInitialResponseReceivedCallbacks = [p \in Peers |-> {}]
  /\ callbackIdCounter = [p \in Peers |-> 0]
  /\ nonceCounter = [p \in Peers |-> 0]
  /\ holdsCert = [p \in Peers |-> FALSE]
  /\ net = [p \in Peers |-> <<>>]
  /\ calls = <<>>
  /\ fired = {}
  /\ outcome = [p \in Peers |-> NoOutcome]
  /\ accepted = [p \in Peers |-> {}]
  /\ transport = "slow"
  /\ tamperLeft \in 0 .. MaxTamper

\* the application of p has made no call yet
NoCallYet(p) == \A i \in UserCalls : calls[i].peer # p

NextBothCall ==
  \/ \E p \in Peers, message \in Payloads :
       NoCallYet(p) /\ ToPeer(p, message, Key(Other(p)))
  \/ \E i \in DOMAIN calls : WaitForInitialResponse(i)
  \/ \E i \in DOMAIN calls : InitialResponseTimeout(i)
  \/ \E p \in Peers : ListenForGeneralMessages(p)
  \/ \E p \in Peers : HandleIncomingMessage(p)

SpecBothCall == InitBothCall /\ [][NextBothCall]_vars

(***************************************************************************)
(* What the claims are stated with.                                        *)
(***************************************************************************)
\* this step handed a message to the onData handler of p
Handled(p) == outcome'[p].n # outcome[p].n

\* this step changed no session of any Peer, no lastInteractedWithPeer, fired
\* no callback, resolved no call and sent nothing from p
NoEffect(p) ==
  /\ sessions' = sessions
  /\ lastInteractedWithPeer' = lastInteractedWithPeer
  /\ fired' = fired
  /\ calls' = calls
  /\ onInitialResponseReceivedCallbacks' = onInitialResponseReceivedCallbacks
  /\ net'[Other(p)] = net[Other(p)]

\* the kind of message a call of the outbound API sends after the handshake
PostType(kind) ==
  IF kind = "toPeer" THEN "general"
  ELSE IF kind = "requestCertificates" THEN "certificateRequest"
  ELSE "certificateResponse"

\* where in the messages call c sent the post-handshake messages are
PostIndexes(c) == {k \in DOMAIN c.sent : c.sent[k].messageType # "initialRequest"}

\* p holds an authenticated session whose peer is k
HasAuthenticatedSession(ss, k) ==
  \E i \in DOMAIN ss : ss[i].isAuthenticated /\ ss[i].peerIdentityKey = k

(***************************************************************************)
(* C1.  Round trip: on a reliable transport, once nothing is left on its   *)
(* way, a toPeer(P, B's key) that A made first has resolved without error  *)
(* and every generalMessage listener of B was called with (A's key, P).    *)
(***************************************************************************)
C1_RoundTrip ==
  (/\ transport = "reliable"
   /\ Quiescent
   /\ calls # <<>>
   /\ calls[1].kind = "toPeer") =>
     /\ calls[1].pc = "done"
     /\ \A id \in onGeneralMessageReceivedCallbacks[Other(calls[1].peer)] :
          Invocation(Other(calls[1].peer), "generalMessage", id, Key(calls[1].peer),
                     calls[1].payload, <<>>, NoReq) \in fired

(***************************************************************************)
(* C2.  Handshake before payload: a call hands its general /               *)
(* certificateRequest / certificateResponse message to the transport only  *)
(* under a session getAuthenticatedSession returned with isAuthenticated;  *)
(* when it needed a handshake, the initialRequest went first; a call that  *)
(* failed, or still waits, has sent no such message.                       *)
(***************************************************************************)
C2_HandshakeBeforePayload ==
  \A i \in DOMAIN calls :
    LET c == calls[i]
    IN  /\ \A k \in PostIndexes(c) :
             /\ c.sent[k].messageType = PostType(c.kind)
             /\ c.pc = "done"
             /\ c.used # NoSession
             /\ c.used.isAuthenticated
             /\ c.sessionNonce # NONE =>
                  k = 2 /\ c.sent[1].messageType = "initialRequest"
             /\ c.sessionNonce = NONE => k = 1
        /\ c.pc \in {"sending", "waiting", "failed"} => PostIndexes(c) = {}

\* a call that needed a handshake has sent its message after it
C2_Witness ==
  \E i \in DOMAIN calls :
    /\ calls[i].pc = "done"
    /\ Len(calls[i].sent) = 2
    /\ calls[i].sent[2].messageType = PostType(calls[i].kind)

(***************************************************************************)
(* C3.  Every session stored with isAuthenticated = TRUE has its           *)
(* sessionNonce, peerNonce and peerIdentityKey set.                        *)
(***************************************************************************)
C3_AuthenticatedSessionsComplete ==
  \A p \in Peers : \A i \in DOMAIN sessions[p] :
    sessions[p][i].isAuthenticated =>
      /\ sessions[p][i].sessionNonce # NONE
      /\ sessions[p][i].peerNonce # NONE
      /\ sessions[p][i].peerIdentityKey # NONE

(***************************************************************************)
(* C4.  An inbound initialResponse, certificateRequest, certificateResponse*)
(* or general message whose yourNonce this wallet did not mint has no      *)
(* effect: the processor raises before it changes a session, fires a       *)
(* callback, sets lastInteractedWithPeer or replies.                       *)
(***************************************************************************)
NonceChecked ==
  {"initialResponse", "certificateRequest", "certificateResponse", "general"}

C4_NonceVerifiedBeforeEffects ==
  [][\A p \in Peers :
       (/\ Handled(p)
        /\ outcome'[p].msg.version = AUTH_VERSION
        /\ outcome'[p].msg.messageType \in NonceChecked
        /\ ~VerifyNonce(outcome'[p].msg.yourNonce, p))
       => NoEffect(p) /\ outcome'[p].result # "ok"]_vars

\* a message of one of these kinds came with a yourNonce that is a nonce, but
\* not one of this wallet
C4_Witness ==
  \E p \in Peers :
    /\ outcome[p].msg.version = AUTH_VERSION
    /\ outcome[p].msg.messageType \in NonceChecked
    /\ outcome[p].msg.yourNonce[1] = "nonce"
    /\ ~VerifyNonce(outcome[p].msg.yourNonce, p)
    /\ outcome[p].result = "NonceRejected"

(***************************************************************************)
(* C5.  A general message whose signature does not verify under the keyID  *)
(* "<nonce> <sessionNonce>" and the counterparty peerIdentityKey of its    *)
(* session makes processGeneralMessage raise: no listener fires, and       *)
(* lastInteractedWithPeer and the sessions stay as they were.              *)
(***************************************************************************)
C5_BadSignatureRejected ==
  [][\A p \in Peers :
       LET m == outcome'[p].msg
           s == GetSession(sessions[p], m.yourNonce)
       IN  (/\ Handled(p)
            /\ m.version = AUTH_VERSION
            /\ m.messageType = "general"
            /\ ~VerifySignature(p, m.signature, "general",
                                [NoData EXCEPT !.payload = m.payload],
                                m.nonce, s.sessionNonce, s.peerIdentityKey))
           => /\ outcome'[p].result # "ok"
              /\ fired' = fired
              /\ lastInteractedWithPeer' = lastInteractedWithPeer
              /\ sessions' = sessions]_vars

\* a general message for an existing session, complete but for its signature
\* not matching its payload, was rejected
C5_Witness ==
  \E p \in Peers :
    /\ outcome[p].msg.messageType = "general"
    /\ outcome[p].msg.signature # NoSig
    /\ outcome[p].msg.signature.payload # outcome[p].msg.payload
    /\ outcome[p].result = "SignatureInvalid"

(***************************************************************************)
(* C6.  An inbound message whose version is missing, empty or not "0.1",   *)
(* or whose messageType is none of the five, changes no session and no     *)
(* lastInteractedWithPeer, fires no callback and sends nothing.            *)
(***************************************************************************)
C6_BadVersionOrTypeDropped ==
  [][\A p \in Peers :
       (/\ Handled(p)
        /\ \/ outcome'[p].msg.version # "0.1"
           \/ outcome'[p].msg.messageType \notin MessageTypes)
       => NoEffect(p) /\ net'[p] = Tail(net[p])]_vars

\* a message that would have been accepted came with another version
C6_Witness ==
  \E p \in Peers :
    /\ outcome[p].msg.version = "0.2"
    /\ outcome[p].msg.messageType = "general"
    /\ VerifyNonce(outcome[p].msg.yourNonce, p)
    /\ outcome[p].result = "VersionMismatch"

(***************************************************************************)
(* C7.  Handshake timeout.  A call whose timer fires before an             *)
(* initialResponse for its sessionNonce was accepted is rejected with the  *)
(* timeout error and its initial-response listener is removed.             *)
(***************************************************************************)
\* the timer of call i fires in this step, no initialResponse for its
\* sessionNonce having been accepted
TimedOut(i) ==
  /\ calls[i].pc = "waiting"
  /\ calls'[i].pc = "failed"
  /\ calls[i].sessionNonce \notin accepted'[calls[i].peer]

Rejected(i) ==
  /\ calls'[i].error = "HandshakeTimeout"
  /\ PostIndexes(calls'[i]) = {}
  /\ \A w \in onInitialResponseReceivedCallbacks'[calls[i].peer] :
       w.id # calls[i].cbid /\ w.sessionNonce # calls[i].sessionNonce

\* C7 as stated: ... and the Peer then holds no authenticated session for the
\* target of the call.
C7_TimeoutNoSessionForTarget ==
  [][\A i \in DOMAIN calls :
       TimedOut(i) =>
         /\ Rejected(i)
         /\ ~HasAuthenticatedSession(sessions'[calls[i].peer], calls[i].identityKey)]_vars

\* C7 amended: ... and the session that handshake added, the one of its
\* sessionNonce, is still there and is not authenticated.
C7_TimeoutOwnSessionPending ==
  [][\A i \in DOMAIN calls :
       TimedOut(i) =>
         /\ Rejected(i)
         /\ \E k \in DOMAIN sessions'[calls[i].peer] :
              sessions'[calls[i].peer][k].sessionNonce = calls[i].sessionNonce
         /\ \A k \in DOMAIN sessions'[calls[i].peer] :
              sessions'[calls[i].peer][k].sessionNonce = calls[i].sessionNonce
                => ~sessions'[calls[i].peer][k].isAuthenticated]_vars

\* a call that had registered its listener has timed out with no
\* initialResponse accepted for it
C7_Witness ==
  \E i \in DOMAIN calls :
    /\ calls[i].error = "HandshakeTimeout"
    /\ calls[i].sessionNonce \notin accepted[calls[i].peer]
    /\ calls[i].cbid >= 0

(***************************************************************************)
(* C8.  Handshake uniqueness: of two toPeer calls for the same identity    *)
(* key, the second made while the handshake of the first was in flight, at *)
(* most one has had an initialResponse accepted for its handshake.         *)
(***************************************************************************)
C8_HandshakeUniqueness ==
  \A i, j \in DOMAIN calls :
    (/\ i \in calls[j].during
     /\ calls[i].kind = "toPeer"
     /\ calls[j].kind = "toPeer"
     /\ calls[i].identityKey # NONE
     /\ calls[i].identityKey = calls[j].identityKey)
    => ~({calls[i].sessionNonce, calls[j].sessionNonce}
           \subseteq accepted[calls[j].peer])

(***************************************************************************)
(* C9.  A call made for identity key k while a handshake for k is in       *)
(* flight sends no initialRequest of its own and adds no Pending session.  *)
(***************************************************************************)
C9_NoSecondHandshake ==
  \A j \in DOMAIN calls : \A i \in calls[j].during :
    (calls[i].identityKey # NONE /\ calls[i].identityKey = calls[j].identityKey)
    => /\ calls[j].sessionNonce = NONE
       /\ \A k \in DOMAIN calls[j].sent :
            calls[j].sent[k].messageType # "initialRequest"

(***************************************************************************)
(* C10.  Session reuse: a call of the outbound API for an identity key the *)
(* Peer holds an authenticated session for sends exactly one message, of   *)
(* its kind, whose yourNonce is the peerNonce of that session; it sends no *)
(* initialRequest and adds no session.                                     *)
(***************************************************************************)
C10_SessionReuse ==
  [][(/\ Len(calls') = Len(calls) + 1
      /\ outcome' = outcome)
     => LET c == calls'[Len(calls')]
            p == c.peer
            s == GetSession(sessions[p], c.identityKey)
        IN  (c.identityKey # NONE /\ HasAuthenticatedSession(sessions[p], c.identityKey))
            => /\ Len(c.sent) = 1
               /\ c.sent[1].messageType = PostType(c.kind)
               /\ c.sent[1].yourNonce = s.peerNonce
               /\ net'[Other(p)] = net[Other(p)] \o c.sent
               /\ sessions' = sessions]_vars

(***************************************************************************)
(* C11.  Last-peer affinity: toPeer without an identity key targets        *)
(* lastInteractedWithPeer when autoPersistLastSession is true and          *)
(* lastInteractedWithPeer is set; otherwise the identity key stays as it   *)
(* was given, and a given one is never replaced.  After a handshake of A   *)
(* with B has completed, a toPeer without identity key goes out under the  *)
(* existing session, with no new handshake, and B's listeners get it.      *)
(***************************************************************************)
\* this step is the application's call number Len(calls) + 1, a toPeer
ToPeerCalled ==
  /\ Len(calls') = Len(calls) + 1
  /\ outcome' = outcome
  /\ calls'[Len(calls')].kind = "toPeer"

\* a handshake that a call of p made for identity key k has completed
HandshakeCompleted(p, k) ==
  \E i \in DOMAIN calls :
    /\ calls[i].peer = p
    /\ calls[i].identityKey = k
    /\ calls[i].pc = "done"
    /\ calls[i].sessionNonce \in accepted[p]

C11_Substitution ==
  ToPeerCalled =>
    LET c == calls'[Len(calls')]
        p == c.peer
        last == lastInteractedWithPeer[p]
    IN  /\ c.identityKey =
             IF autoPersistLastSession[p] /\ last # NONE /\ c.arg = NONE
             THEN last ELSE c.arg
        /\ (/\ autoPersistLastSession[p]
            /\ c.arg = NONE
            /\ HandshakeCompleted(p, Key(Other(p))))
           => /\ c.identityKey = Key(Other(p))
              /\ c.pc = "done"
              /\ c.sessionNonce = NONE
              /\ Len(c.sent) = 1
              /\ c.sent[1].messageType = "general"
              /\ c.sent[1].payload = c.payload
              /\ c.used.isAuthenticated
              /\ c.used.peerIdentityKey = Key(Other(p))
              /\ c.sent[1].yourNonce = c.used.peerNonce
              /\ net'[Other(p)] = net[Other(p)] \o c.sent
              /\ sessions' = sessions

\* a toPeer without identity key that went out under the existing session has
\* reached the listeners of the other Peer once nothing is on its way
C11_Delivered ==
  \A i \in DOMAIN calls :
    (/\ Quiescent
     /\ calls[i].kind = "toPeer"
     /\ calls[i].arg = NONE
     /\ calls[i].pc = "done"
     /\ calls[i].sessionNonce = NONE)
    => \A id \in onGeneralMessageReceivedCallbacks[Other(calls[i].peer)] :
         Invocation(Other(calls[i].peer), "generalMessage", id,
                    Key(calls[i].peer), calls[i].payload, <<>>, NoReq) \in fired

Processed(p, type) ==
  /\ Handled(p)
  /\ outcome'[p].result = "ok"
  /\ outcome'[p].msg.messageType = type

C12_LastInteractedEvents ==
  [][\A p \in Peers :
       LET last == lastInteractedWithPeer[p]
           m == outcome'[p].msg
       IN  lastInteractedWithPeer'[p] =
             IF Processed(p, "initialRequest") /\ last = NONE THEN m.identityKey
             ELSE IF Processed(p, "initialResponse") THEN m.identityKey
             ELSE IF Processed(p, "general") THEN m.identityKey
             ELSE last]_vars

(***************************************************************************)
(* C13.  Whenever lastInteractedWithPeer is set, the SessionManager holds  *)
(* an authenticated session whose peerIdentityKey is that key.             *)
(***************************************************************************)
C13_LastInteractedHasSession ==
  \A p \in Peers :
    lastInteractedWithPeer[p] # NONE =>
      HasAuthenticatedSession(sessions[p], lastInteractedWithPeer[p])

(***************************************************************************)
(* C14.  Structural validation: an inbound message in which a field its    *)
(* messageType requires is missing or empty is rejected by its processor:  *)
(* no session is added or changed, no callback fires, no reply is sent.    *)
(***************************************************************************)
\* a field that message m requires for its messageType is missing or empty
MissingRequired(m) ==
  LET t == m.messageType
  IN  \/ t \in MessageTypes /\ Blank(m.identityKey)
      \/ t \in {"initialRequest", "initialResponse"} /\ Blank(m.initialNonce)
      \/ t \in MessageTypes \ {"initialRequest"} /\ Blank(m.yourNonce)
      \/ t \in MessageTypes \ {"initialRequest"} /\ m.signature = NoSig
      \/ t \in {"certificateRequest", "certificateResponse", "general"}
           /\ Blank(m.nonce)
      \/ t = "certificateRequest" /\ ~m.requestedCertificates.def
      \/ t = "general" /\ m.payload = NoPayload

C14_StructuralValidation ==
  [][\A p \in Peers :
       (/\ Handled(p)
        /\ outcome'[p].msg.version = AUTH_VERSION
        /\ MissingRequired(outcome'[p].msg))
       => outcome'[p].result # "ok" /\ NoEffect(p)]_vars

(***************************************************************************)
(* C15.  An error a processor raises is caught by the onData handler: the  *)
(* message is consumed, no pending outbound caller is rejected or resumed, *)
(* no listener is lost and nothing else on its way to the Peer is dropped. *)
(* But for a certificate-validation error, which comes after the session   *)
(* was updated, the Peer is as it was before the message, so that it       *)
(* handles what comes later as it would have otherwise.                    *)
(***************************************************************************)
C15_ErrorStep ==
  \A p \in Peers :
    (Handled(p) /\ outcome'[p].result # "ok")
    => /\ calls' = calls
       /\ onInitialResponseReceivedCallbacks' = onInitialResponseReceivedCallbacks
       /\ callbackMaps' = callbackMaps
       /\ callbackIdCounter' = callbackIdCounter
       /\ net'[Other(p)] = net[Other(p)]
       /\ net'[p] = net[p] \/ (net[p] # <<>> /\ net'[p] = Tail(net[p]))
       /\ outcome'[p].result # "CertificateValidation" =>
            /\ sessions' = sessions
            /\ lastInteractedWithPeer' = lastInteractedWithPeer
            /\ nonceCounter' = nonceCounter
            /\ fired' = fired

SentBy(p) ==
  SubSeq(net'[Other(p)], Len(net[Other(p)]) + 1, Len(net'[Other(p)]))

C16_ForwardOrAutoRespond ==
  [][\A p \in Peers :
       Processed(p, "certificateRequest") =>
         LET m == outcome'[p].msg
         IN  IF onCertificateRequestReceivedCallbacks[p] # {}
             THEN /\ RequestedInvocations(p, m.identityKey, m.requestedCertificates)
                       \subseteq fired'
                  /\ RequestedInvocations(p, m.identityKey, m.requestedCertificates)
                       # {}
                  /\ fired' \ fired \subseteq
                       RequestedInvocations(p, m.identityKey, m.requestedCertificates)
                  /\ SentBy(p) = <<>>
             ELSE /\ fired' = fired
                  /\ Len(SentBy(p)) = 1
                  /\ SentBy(p)[1].messageType = "certificateResponse"
                  /\ SentBy(p)[1].certificates =
                       GetVerifiableCertificates(p, m.requestedCertificates)]_vars

(***************************************************************************)
(* C17.  Certificate auto-response in the handshake: when A starts a       *)
(* handshake with certifiers in its certificatesToRequest, B holds a       *)
(* matching certificate and has no certificatesRequested listener, then on *)
(* a reliable transport, once nothing is on its way, every                 *)
(* certificatesReceived listener of A was called with (B's key, the        *)
(* certificate B enclosed in its initialResponse) and the caller of the    *)
(* handshake has resolved.                                                 *)
(***************************************************************************)
C17_HandshakeAutoResponse ==
  (/\ transport = "reliable"
   /\ Quiescent
   /\ calls # <<>>
   /\ calls[1].peer = "A"
   /\ certificatesToRequest["A"] # {}
   /\ holdsCert["B"]
   /\ onCertificateRequestReceivedCallbacks["B"] = {})
  => /\ ReceivedInvocations("A", Key("B"), <<Cert("B")>>) \subseteq fired
     /\ calls[1].pc = "done"

(***************************************************************************)
(* C18.  certificatesReceived listeners are called for a                   *)
(* certificateResponse only when verifyNonce(yourNonce) holds, a session   *)
(* is found by yourNonce, the signature over the certificates verifies     *)
(* under keyID "<nonce> <sessionNonce>", and validateCertificates succeeds *)
(* against the requestedCertificates of the response itself; if one of     *)
(* them fails the processor raises and no listener is called.              *)
(***************************************************************************)
\* the four checks of a certificateResponse m at p
CertificateResponseChecks(p, m) ==
  LET s == GetSession(sessions[p], m.yourNonce)
  IN  /\ VerifyNonce(m.yourNonce, p)
      /\ s # NoSession
      /\ VerifySignature(p, m.signature, "certs",
                         [NoData EXCEPT !.certs = m.certificates],
                         m.nonce, s.sessionNonce, m.identityKey)
      /\ ValidateCertificates(m, IF m.requestedCertificates.def
                                 THEN m.requestedCertificates ELSE ReqSet({}))

C18_CertificatesReceivedAfterChecks ==
  [][\A p \in Peers :
       LET m == outcome'[p].msg
       IN  (/\ Handled(p)
            /\ m.version = AUTH_VERSION
            /\ m.messageType = "certificateResponse")
           => IF CertificateResponseChecks(p, m)
              THEN /\ outcome'[p].result = "ok"
                   /\ ReceivedInvocations(p, m.identityKey, m.certificates)
                        \subseteq fired'
                   /\ fired' \ fired \subseteq
                        ReceivedInvocations(p, m.identityKey, m.certificates)
              ELSE /\ outcome'[p].result # "ok"
                   /\ fired' = fired]_vars

\* a certificateResponse has passed the four checks and a listener was called
C18_Witness ==
  \E p \in Peers :
    /\ outcome[p].msg.messageType = "certificateResponse"
    /\ outcome[p].result = "ok"
    /\ onCertificatesReceivedCallbacks[p] # {}
    /\ ReceivedInvocations(p, outcome[p].msg.identityKey, outcome[p].msg.certificates)
         \subseteq fired

(***************************************************************************)
(* C19.  Callback IDs: every registration, of any of the four kinds,       *)
(* returns an ID greater than every ID returned before at that Peer, so no *)
(* ID is issued twice; stopListeningFor* with an id that is not in the map *)
(* of its kind, an id issued for another kind included, leaves the four    *)
(* maps as they are.                                                       *)
(***************************************************************************)
\* the IDs of the initial-response listeners of p
InitialResponseIds(p) == {w.id : w \in onInitialResponseReceivedCallbacks[p]}

\* the IDs registered at p, of all four kinds
AllIds(p) ==
  onGeneralMessageReceivedCallbacks[p] \cup onCertificatesReceivedCallbacks[p]
    \cup onCertificateRequestReceivedCallbacks[p] \cup InitialResponseIds(p)

\* every ID registered was drawn from the counter, and by one kind only
C19_IdsDistinct ==
  \A p \in Peers :
    /\ \A id \in AllIds(p) : id < callbackIdCounter[p]
    /\ Cardinality(AllIds(p)) =
         Cardinality(onGeneralMessageReceivedCallbacks[p])
         + Cardinality(onCertificatesReceivedCallbacks[p])
         + Cardinality(onCertificateRequestReceivedCallbacks[p])
         + Cardinality(onInitialResponseReceivedCallbacks[p])

\* stopListeningFor* with an id that its map does not hold changes nothing
C19_StopAbsent ==
  \A p \in Peers : \A callbackID \in CallbackIDs(p) :
    /\ \A kind \in UserKinds :
         callbackID \notin Registered(kind)[p] =>
           MapDelete(Registered(kind)[p], callbackID) = Registered(kind)[p]
    /\ callbackID \notin InitialResponseIds(p) =>
         StopListeningForInitialResponses(onInitialResponseReceivedCallbacks[p],
                                          callbackID)
           = onInitialResponseReceivedCallbacks[p]

\* a step draws at most one ID, the next one, and registers no other
C19_IdStep ==
  \A p \in Peers :
    /\ callbackIdCounter'[p] \in {callbackIdCounter[p], callbackIdCounter[p] + 1}
    /\ AllIds(p)' \ AllIds(p) \subseteq {callbackIdCounter[p]}
    /\ AllIds(p)' \ AllIds(p) # {} =>
         /\ callbackIdCounter'[p] = callbackIdCounter[p] + 1
         /\ \A id \in AllIds(p) : id < callbackIdCounter[p]

C19_CallbackIds == [](C19_IdsDistinct /\ C19_StopAbsent) /\ [][C19_IdStep]_vars

\* a Peer holds listeners of two kinds, one of them the internal one, and an
\* ID that is in one map is absent from another
C19_Witness ==
  \E p \in Peers :
    /\ InitialResponseIds(p) # {}
    /\ onCertificatesReceivedCallbacks[p] # {}
    /\ callbackIdCounter[p] >= 2

(***************************************************************************)
(* C20.  Registering a listener of any kind and unregistering it at once   *)
(* with the ID returned leaves the four callback maps as they were, and    *)
(* every inbound message then has the effects it would have had: the same  *)
(* callbacks, the same replies, the same choice between the                *)
(* certificatesRequested listeners and the automatic response.             *)
(***************************************************************************)
\* the maps are as before after set and delete of the next ID
C20_SetDelete ==
  \A p \in Peers : \A kind \in UserKinds :
    MapDelete(MapSet(Registered(kind)[p], NextCallbackID(p)), NextCallbackID(p))
      = Registered(kind)[p]

\* the messages that are or were on their way to p
Inbound(p) ==
  {net[p][k] : k \in DOMAIN net[p]}
    \cup UNION {{calls[i].sent[k] : k \in DOMAIN calls[i].sent} :
                  i \in {j \in DOMAIN calls : calls[j].peer = Other(p)}}

\* this step drew an ID at p whose listener is not there after it
RegisteredAndRemoved(p) ==
  /\ callbackIdCounter'[p] = callbackIdCounter[p] + 1
  /\ callbackIdCounter[p] \notin AllIds(p)'

C20_Step ==
  \A p \in Peers :
    RegisteredAndRemoved(p)
    => /\ callbackMaps' = callbackMaps
       /\ onInitialResponseReceivedCallbacks' = onInitialResponseReceivedCallbacks
       /\ \A m \in Inbound(p) : Dispatch(p, m)' = Dispatch(p, m)

C20_ListenThenStopIsNeutral == []C20_SetDelete /\ [][C20_Step]_vars

\* a Peer that registered and removed a listener, and has none, has answered
\* a certificateRequest by itself
C20_Witness ==
  \E p \in Peers :
    /\ callbackIdCounter[p] > 0
    /\ AllIds(p) = {}
    /\ outcome[p].msg.messageType = "certificateRequest"
    /\ outcome[p].result = "ok"
    /\ \E i \in DOMAIN calls : calls[i].peer = p /\ calls[i].inbound

(***************************************************************************)
(* C21.  requestCertificates without an identity key uses the current      *)
(* session: when the Peer holds an authenticated session with the peer it  *)
(* last interacted with, the call sends one certificateRequest under that  *)
(* session, adds no session and sends no initialRequest.                   *)
(***************************************************************************)
\* this step is the application's call number Len(calls) + 1, a
\* requestCertificates without identity key
RequestCertificatesCalledBare ==
  /\ Len(calls') = Len(calls) + 1
  /\ outcome' = outcome
  /\ calls'[Len(calls')].kind = "requestCertificates"
  /\ calls'[Len(calls')].arg = NONE

C21_RequestUsesCurrentSession ==
  [][RequestCertificatesCalledBare =>
       LET c == calls'[Len(calls')]
           p == c.peer
           last == lastInteractedWithPeer[p]
           s == GetSession(sessions[p], last)
       IN  (last # NONE /\ HasAuthenticatedSession(sessions[p], last))
           => /\ sessions' = sessions
              /\ Len(c.sent) = 1
              /\ c.sent[1].messageType = "certificateRequest"
              /\ c.sent[1].yourNonce = s.peerNonce]_vars

(***************************************************************************)
(* C22.  Whenever processInitialResponse accepts a message, every          *)
(* initial-response listener registered for the sessionNonce of its        *)
(* session is invoked (and so removed, its call going on instead of timing *)
(* out), and the listeners of other sessionNonces are not invoked.         *)
(***************************************************************************)
\* the sessionNonces whose initialResponse p accepts in this step
AcceptedNow(p) ==
  IF Handled(p) THEN Dispatch(p, outcome'[p].msg).acc ELSE {}

C22_AcceptanceWakesListeners ==
  [][\A p \in Peers :
       \A w \in onInitialResponseReceivedCallbacks[p] :
         IF w.sessionNonce \in AcceptedNow(p)
         THEN /\ w \notin onInitialResponseReceivedCallbacks'[p]
              /\ \A i \in DOMAIN calls :
                   (calls[i].peer = p /\ calls[i].cbid = w.id)
                   => /\ calls'[i].pc \in {"done", "failed"}
                      /\ calls'[i].error # "HandshakeTimeout"
         ELSE Handled(p) => w \in onInitialResponseReceivedCallbacks'[p]]_vars

(***************************************************************************)
(* C23.  After processInitialResponse accepts a message, the session found *)
(* by yourNonce has peerNonce = message.initialNonce, peerIdentityKey =    *)
(* message.identityKey and isAuthenticated = TRUE, and the SessionManager  *)
(* returns it for its sessionNonce, for its peerNonce and for its          *)
(* peerIdentityKey; when the nonce check, the session lookup or the        *)
(* signature check fails, every session is left as it was.                 *)
(***************************************************************************)
\* the errors of processInitialResponse before it changes the session
EarlyErrors == {"Structural", "NonceRejected", "SessionMissing", "SignatureInvalid"}

\* a rejected initialResponse leaves the sessions of p as they were
C23_RejectedLeavesSession(p) ==
  (/\ Handled(p)
   /\ outcome'[p].msg.version = AUTH_VERSION
   /\ outcome'[p].msg.messageType = "initialResponse"
   /\ outcome'[p].result \in EarlyErrors)
  => sessions'[p] = sessions[p]

\* the session of sessionNonce sn at p after the step carries what message m
\* brought
C23_Updated(p, sn, m) ==
  LET s == GetSession(sessions'[p], sn)
  IN  /\ s # NoSession
      /\ s.sessionNonce = sn
      /\ s.peerNonce = m.initialNonce
      /\ s.peerIdentityKey = m.identityKey
      /\ s.isAuthenticated

Later(ss, sn) ==
  {ss[i] : i \in {j \in DOMAIN ss :
                    \E k \in DOMAIN ss : k < j /\ ss[k].sessionNonce = sn}}

SessionNonces(ss) == {ss[i].sessionNonce : i \in DOMAIN ss}

C24_ResponderAddsAndReplies(p) ==
  Processed(p, "initialRequest") =>
    LET m == outcome'[p].msg
        ss == sessions'[p]
        new == ss[Len(ss)]
        sent == SentBy(p)
    IN  /\ Len(ss) = Len(sessions[p]) + 1
        /\ SubSeq(ss, 1, Len(sessions[p])) = sessions[p]
        /\ new.isAuthenticated
        /\ new.sessionNonce \notin SessionNonces(sessions[p])
        /\ VerifyNonce(new.sessionNonce, p)
        /\ new.peerNonce = m.initialNonce
        /\ new.peerIdentityKey = m.identityKey
        /\ Len(sent) = 1
        /\ sent[1].messageType = "initialResponse"
        /\ sent[1].yourNonce = m.initialNonce
        /\ sent[1].initialNonce = new.sessionNonce
        /\ sent[1].signature.signer = Key(p)
        /\ sent[1].signature.k1 = m.initialNonce
        /\ sent[1].signature.k2 = new.sessionNonce

\* message m is an initialResponse as processInitialRequest of the other Peer
\* signs it for p
HonestInitialResponse(p, m) ==
  /\ m.version = AUTH_VERSION
  /\ m.messageType = "initialResponse"
  /\ m.identityKey = Key(Other(p))
  /\ m.signature =
       CreateSignature(Other(p), "nonces",
                       [NoData EXCEPT !.d1 = m.yourNonce, !.d2 = m.initialNonce],
                       m.yourNonce, m.initialNonce, Key(p))

C24_HonestReplyVerifies(p) ==
  (/\ Handled(p)
   /\ HonestInitialResponse(p, outcome'[p].msg)
   /\ outcome'[p].msg.yourNonce \in SessionNonces(sessions[p]))
  => outcome'[p].result \notin EarlyErrors

C24_ResponderStep ==
  [][\A p \in Peers :
       C24_ResponderAddsAndReplies(p) /\ C24_HonestReplyVerifies(p)]_vars

(***************************************************************************)
(* C25.  The fields of an existing session are changed only by             *)
(* processInitialResponse on a valid initialResponse for that session,     *)
(* which sets peerNonce, peerIdentityKey and isAuthenticated and leaves    *)
(* the sessionNonce: processInitialRequest only adds sessions, and the     *)
(* other processors, the outbound API and the timeout leave every existing *)
(* session as it is, a Pending one between initiateHandshake and its       *)
(* initialResponse included.  No session is ever removed.                  *)
(***************************************************************************)
\* message m is an initialResponse that is valid for session s of p
ValidInitialResponseFor(p, m, s) ==
  /\ m.version = AUTH_VERSION
  /\ m.messageType = "initialResponse"
  /\ m.yourNonce = s.sessionNonce
  /\ VerifyNonce(m.yourNonce, p)
  /\ VerifySignature(p, m.signature, "nonces",
                     [NoData EXCEPT !.d1 = s.sessionNonce, !.d2 = m.initialNonce],
                     s.sessionNonce, m.initialNonce, m.identityKey)

C25_SessionFrame ==
  [][\A p \in Peers :
       LET old == sessions[p]
           new == sessions'[p]
           m == outcome'[p].msg
       IN  /\ Len(new) >= Len(old)
           /\ \A i \in DOMAIN old :
                new[i] # old[i] =>
                  /\ Handled(p)
                  /\ ValidInitialResponseFor(p, m, old[i])
                  /\ new[i] = [isAuthenticated |-> TRUE,
                               sessionNonce |-> old[i].sessionNonce,
                               peerNonce |-> m.initialNonce,
                               peerIdentityKey |-> m.identityKey]
           /\ Processed(p, "initialRequest") =>
                SubSeq(new, 1, Len(old)) = old /\ Len(new) = Len(old) + 1]_vars

\* an initialResponse has authenticated one session of a Peer that holds
\* another, still Pending
C25_Witness ==
  \E p \in Peers : \E i, j \in DOMAIN sessions[p] :
    /\ sessions[p][i].sessionNonce \in accepted[p]
    /\ sessions[p][i].isAuthenticated
    /\ outcome[p].msg.messageType = "initialResponse"
    /\ outcome[p].msg.yourNonce = sessions[p][i].sessionNonce
    /\ ~sessions[p][j].isAuthenticated
    /\ sessions[p][j].peerNonce = NONE

(***************************************************************************)
(* C26.  The sender a generalMessage, certificatesReceived or              *)
(* certificatesRequested listener is called with for a general,            *)
(* certificateResponse or certificateRequest message is the                *)
(* peerIdentityKey of the session its yourNonce resolved to, and such a    *)
(* message sets lastInteractedWithPeer to no other identity.               *)
(***************************************************************************)
PostHandshakeTypes == {"general", "certificateRequest", "certificateResponse"}

C26_SenderIsSessionPeer ==
  [][\A p \in Peers :
       LET m == outcome'[p].msg
           s == GetSession(sessions[p], m.yourNonce)
       IN  (/\ Handled(p)
            /\ m.version = AUTH_VERSION
            /\ m.messageType \in PostHandshakeTypes)
           => /\ \A f \in fired' \ fired : f.sender = s.peerIdentityKey
              /\ lastInteractedWithPeer'[p] # lastInteractedWithPeer[p]
                   => lastInteractedWithPeer'[p] = s.peerIdentityKey]_vars

(***************************************************************************)
(* C27.  Post-handshake messages are accepted only on authenticated        *)
(* sessions: a general, certificateRequest or certificateResponse message  *)
(* whose yourNonce resolves to a session that is not authenticated fires   *)
(* no callback, leaves lastInteractedWithPeer as it is and makes the Peer  *)
(* send nothing.                                                           *)
(***************************************************************************)
C27_OnlyOnAuthenticatedSessions ==
  [][\A p \in Peers :
       LET m == outcome'[p].msg
           s == GetSession(sessions[p], m.yourNonce)
       IN  (/\ Handled(p)
            /\ m.version = AUTH_VERSION
            /\ m.messageType \in PostHandshakeTypes
            /\ s # NoSession
            /\ ~s.isAuthenticated)
           => /\ fired' = fired
              /\ lastInteractedWithPeer' = lastInteractedWithPeer
              /\ net'[Other(p)] = net[Other(p)]]_vars

(***************************************************************************)
(* C28.  No lost wake-up in the handshake: a call whose initialResponse    *)
(* was accepted is never rejected with the timeout error; in particular,   *)
(* when the initialResponse was accepted while transport.send of the       *)
(* initialRequest had not returned, the call does not start to wait for a  *)
(* listener call once the send returns.                                    *)
(***************************************************************************)
\* the initialResponse for the handshake of call i has been accepted
ResponseAccepted(i) == calls[i].sessionNonce \in accepted[calls[i].peer]

C28_NoLostWakeUp ==
  [][\A i \in DOMAIN calls :
       /\ (calls[i].pc = "sending" /\ ResponseAccepted(i))
            => calls'[i].pc # "waiting"
       /\ (calls[i].pc = "waiting" /\ ResponseAccepted(i))
            => calls'[i].error # "HandshakeTimeout"]_vars

(***************************************************************************)
(* C29.  Initiator-side authentication is atomic with notification: when   *)
(* processInitialResponse raises, validateCertificates failing after the   *)
(* signature check included, it leaves the sessions as they were; and a    *)
(* call that is rejected with the timeout error leaves the session of its  *)
(* handshake unauthenticated.                                              *)
(***************************************************************************)
C29_AuthenticationAtomic ==
  [][/\ \A p \in Peers :
          (/\ Handled(p)
           /\ outcome'[p].msg.version = AUTH_VERSION
           /\ outcome'[p].msg.messageType = "initialResponse"
           /\ outcome'[p].result # "ok")
          => sessions'[p] = sessions[p]
     /\ \A i \in DOMAIN calls :
          calls'[i].error = "HandshakeTimeout"
          => ~GetSession(sessions'[calls[i].peer], calls[i].sessionNonce).isAuthenticated
    ]_vars

(***************************************************************************)
(* C30.  Processing an inbound message never starts a handshake: the step  *)
(* that handles a message adds no session that is not authenticated and    *)
(* sends no initialRequest, the automatic certificate response of          *)
(* processCertificateRequest and processInitialResponse included.          *)
(***************************************************************************)
\* the sessions of p this step added
AddedSessions(p) ==
  {sessions'[p][k] : k \in DOMAIN sessions'[p] \ DOMAIN sessions[p]}

C30_NoHandshakeFromInbound ==
  [][\A p \in Peers :
       Handled(p) =>
         /\ \A s \in AddedSessions(p) : s.isAuthenticated
         /\ \A k \in DOMAIN SentBy(p) :
              SentBy(p)[k].messageType # "initialRequest"]_vars

====
